---- MODULE Spec2Model ----
(***************************************************************************)
(* Model of visual-levenshtein (src/src/lib.rs): the Levenshtein struct,   *)
(* its cost/operation matrix, the traceback of raw_edits, the run grouping *)
(* of grouped_edits and the encoder bridge of encoded_edits.               *)
(*                                                                         *)
(* A token (&str) is a TLA+ string; a text (String) is a TLA+ string too,  *)
(* and join("") is string concatenation.  Vec indices are 0-based in the   *)
(* source and 1-based here: origin[x - 1] in Rust is origin[x] below; the  *)
(* matrix keeps the source's coordinates 0..n by 0..m.                     *)
(***************************************************************************)
EXTENDS Integers, Sequences, FiniteSets, TLC

\* Longest token sequence given to the constructor.
MaxLen == 3

\* Number of queries made on one instance.
MaxQueries == 2

\* The tokens the tokenizer delivers: the grapheme clusters of texts over
\* the letters a and b, as levenshtein("aba", "bab") sees them.
Tokens == {"a", "b"}

TokenSeqs == UNION {[1..k -> Tokens] : k \in 0..MaxLen}

VARIABLES
    origin,        \* Levenshtein.origin
    dest,          \* Levenshtein.dest
    matrix,        \* Levenshtein.matrix, matrix[x][y]
    result,        \* the value returned by the last completed query
    fault,         \* "none", or the panic that ended the last query
    queries,       \* number of queries completed on this instance
    writes,        \* the cells set_value wrote during the last query
    cursor_trace   \* the cursor positions value_at read in the last traceback

vars == <<origin, dest, matrix, result, fault, queries, writes, cursor_trace>>

----------------------------------------------------------------------------
(* enum Transformation *)

TInit(c)               == [kind |-> "Init", cost |-> c, args |-> <<>>]
TEquality(c, e)        == [kind |-> "Equality", cost |-> c, args |-> <<e>>]
TDeletion(c, e)        == [kind |-> "Deletion", cost |-> c, args |-> <<e>>]
TInsertion(c, e)       == [kind |-> "Insertion", cost |-> c, args |-> <<e>>]
TSubstitution(c, o, d) == [kind |-> "Substitution", cost |-> c, args |-> <<o, d>>]

cost(tr) == tr.cost

t(tr) ==
    CASE tr.kind = "Init" -> 0
      [] tr.kind = "Equality" -> 1
      [] tr.kind = "Deletion" -> 2
      [] tr.kind = "Insertion" -> 3
      [] tr.kind = "Substitution" -> 4

(* enum Edit *)

EditEquality(s)        == [kind |-> "Equality", args |-> <<s>>]
EditDeletion(s)        == [kind |-> "Deletion", args |-> <<s>>]
EditInsertion(s)       == [kind |-> "Insertion", args |-> <<s>>]
EditSubstitution(o, d) == [kind |-> "Substitution", args |-> <<o, d>>]

----------------------------------------------------------------------------
(* Levenshtein::new / new_words, after tokenization *)

x_dim(o) == Len(o) + 1
y_dim(d) == Len(d) + 1

new_matrix(o, d) == [x \in 0..(x_dim(o) - 1) |-> [y \in 0..(y_dim(d) - 1) |-> TInit(0)]]

value_at(m, x, y) == m[x][y]

set_value(m, x, y, val) == [m EXCEPT ![x][y] = val]

\* A variant of initialize() without the loop over x: column 0 keeps Init(0).
initialize_without_column(m, o, d) ==
    [x \in DOMAIN m |-> [y \in DOMAIN m[x] |->
        IF x = 0 /\ y = 0 THEN TInit(0)
        ELSE IF x = 0 THEN TInsertion(y, d[y])
        ELSE m[x][y]]]

\* initialize(): the three groups of writes touch pairwise distinct cells,
\* so the matrix after the two loops is this one.
initialize(m, o, d) ==
    [x \in DOMAIN m |-> [y \in DOMAIN m[x] |->
        IF x = 0 /\ y = 0 THEN TInit(0)
        ELSE IF y = 0 THEN TDeletion(x, o[x])
        ELSE IF x = 0 THEN TInsertion(y, d[y])
        ELSE m[x][y]]]

initialize_writes(o, d) ==
    {<<0, 0>>} \cup {<<x, 0>> : x \in 1..(x_dim(o) - 1)}
               \cup {<<0, y>> : y \in 1..(y_dim(d) - 1)}

\* A variant of t_delta that charges nothing for a substitution.
t_delta_free_substitution(from_cost, o, d) ==
    IF o = d THEN TEquality(from_cost, d)
    ELSE TSubstitution(from_cost, o, d)

t_delta(from_cost, o, d) ==
    IF o = d THEN TEquality(from_cost, d)
    ELSE TSubstitution(from_cost + 1, o, d)

\* A variant of t_min_3 whose second comparison is <= instead of <.
t_min_3_not_strict(insertion, deletion, sub_or_eq) ==
    LET insertion_v_deletion ==
            IF cost(insertion) < cost(deletion) THEN insertion ELSE deletion
    IN  IF cost(insertion_v_deletion) <= cost(sub_or_eq)
        THEN insertion_v_deletion
        ELSE sub_or_eq

t_min_3(insertion, deletion, sub_or_eq) ==
    LET insertion_v_deletion ==
            IF cost(insertion) < cost(deletion) THEN insertion ELSE deletion
    IN  IF cost(insertion_v_deletion) < cost(sub_or_eq)
        THEN insertion_v_deletion
        ELSE sub_or_eq

\* The three candidates of one interior cell, read from the matrix as it is
\* when the loop reaches the cell.
\* A variant of the deletion candidate that reads the cell being computed
\* instead of the cell above it.
deletion_at_own_cell(m, o, d, x, y) == TDeletion(cost(value_at(m, x, y)) + 1, o[x])

deletion_at(m, o, d, x, y)  == TDeletion(cost(value_at(m, x - 1, y)) + 1, o[x])
insertion_at(m, o, d, x, y) == TInsertion(cost(value_at(m, x, y - 1)) + 1, d[y])

\* A variant of the third candidate that reads the cell being computed
\* instead of its diagonal neighbour.
sub_or_eq_at_own_cell(m, o, d, x, y) == t_delta(cost(value_at(m, x, y)), o[x], d[y])

sub_or_eq_at(m, o, d, x, y) == t_delta(cost(value_at(m, x - 1, y - 1)), o[x], d[y])

\* The body of the inner loop: note the argument order of the call.
calculate_cell(m, o, d, x, y) ==
    t_min_3(deletion_at(m, o, d, x, y),
            insertion_at(m, o, d, x, y),
            sub_or_eq_at(m, o, d, x, y))

RECURSIVE calculate_from(_, _, _, _, _)
calculate_from(m, o, d, x, y) ==
    IF x >= x_dim(o) THEN m
    ELSE IF y >= y_dim(d) THEN calculate_from(m, o, d, x + 1, 1)
    ELSE calculate_from(set_value(m, x, y, calculate_cell(m, o, d, x, y)),
                        o, d, x, y + 1)

calculate_matrix(m, o, d) == calculate_from(m, o, d, 1, 1)

calculate_writes(o, d) == (1..(x_dim(o) - 1)) \X (1..(y_dim(d) - 1))

\* initialize(); calculate_matrix(); as every query runs them.
build(m, o, d) == calculate_matrix(initialize(m, o, d), o, d)

build_writes(o, d) == initialize_writes(o, d) \cup calculate_writes(o, d)

----------------------------------------------------------------------------
(* raw_edits: the traceback loop *)

\* A variant of raw_edits that leaves out transformations.reverse().
reverse_left_out(s) == s

RECURSIVE reverse(_)
reverse(s) == IF s = <<>> THEN <<>> ELSE Append(reverse(Tail(s)), Head(s))

\* One evaluation of the while loop from cursor (x, y).  A decrement of a
\* zero usize panics in a debug build and wraps in a release build, where
\* the next value_at is out of bounds: a panic in both.
RECURSIVE traceback(_, _, _, _, _)
traceback(m, x, y, transformations, trace) ==
    IF ~(x > 0 \/ y > 0)
    THEN [fault |-> "none", transformations |-> reverse(transformations),
          trace |-> trace]
    ELSE
        LET next == value_at(m, x, y)
            read == Append(trace, <<x, y>>)
            stop(f) == [fault |-> f, transformations |-> <<>>, trace |-> read]
        IN  CASE next.kind = "Insertion" ->
                   IF y = 0 THEN stop("underflow")
                   ELSE traceback(m, x, y - 1, Append(transformations, next), read)
              [] next.kind = "Deletion" ->
                   IF x = 0 THEN stop("underflow")
                   ELSE traceback(m, x - 1, y, Append(transformations, next), read)
              [] next.kind \in {"Equality", "Substitution"} ->
                   IF x = 0 \/ y = 0 THEN stop("underflow")
                   ELSE traceback(m, x - 1, y - 1, Append(transformations, next), read)
              [] next.kind = "Init" -> stop("unimplemented_traceback")

----------------------------------------------------------------------------
(* grouped_edits: the run grouping.  i is the source's 0-based index, so   *)
(* raw[i] in Rust is raw[i + 1] here.                                      *)

RECURSIVE join(_)
join(strs) == IF strs = <<>> THEN "" ELSE Head(strs) \o join(Tail(strs))

\* match raw[i] { ... }: push the tokens of one raw edit to the bins.
push_bins(tr, bin, sub_dest_bin) ==
    CASE tr.kind \in {"Equality", "Deletion", "Insertion"} ->
           [fault |-> "none", bin |-> Append(bin, tr.args[1]),
            sub_dest_bin |-> sub_dest_bin]
      [] tr.kind = "Substitution" ->
           [fault |-> "none", bin |-> Append(bin, tr.args[1]),
            sub_dest_bin |-> Append(sub_dest_bin, tr.args[2])]
      [] tr.kind = "Init" ->
           [fault |-> "unimplemented_grouping", bin |-> bin,
            sub_dest_bin |-> sub_dest_bin]

\* A variant of the inner loop with if in place of while: one push at most.
inner_loop_once(raw, i, current_t, bin, sub_dest_bin) ==
    IF i < Len(raw) /\ t(raw[i + 1]) = current_t
    THEN LET p == push_bins(raw[i + 1], bin, sub_dest_bin)
         IN  IF p.fault # "none"
             THEN [fault |-> p.fault, i |-> i, bin |-> bin,
                   sub_dest_bin |-> sub_dest_bin]
             ELSE [fault |-> "none", i |-> i + 1, bin |-> p.bin,
                   sub_dest_bin |-> p.sub_dest_bin]
    ELSE [fault |-> "none", i |-> i, bin |-> bin, sub_dest_bin |-> sub_dest_bin]

\* while i < raw.len() && raw[i].t() == current_t { ... }
RECURSIVE inner_loop(_, _, _, _, _)
inner_loop(raw, i, current_t, bin, sub_dest_bin) ==
    IF i < Len(raw) /\ t(raw[i + 1]) = current_t
    THEN LET p == push_bins(raw[i + 1], bin, sub_dest_bin)
         IN  IF p.fault # "none"
             THEN [fault |-> p.fault, i |-> i, bin |-> bin,
                   sub_dest_bin |-> sub_dest_bin]
             ELSE inner_loop(raw, i + 1, current_t, p.bin, p.sub_dest_bin)
    ELSE [fault |-> "none", i |-> i, bin |-> bin, sub_dest_bin |-> sub_dest_bin]

\* match current_t { 1 => ..., 2 => ..., 3 => ..., 4 => ..., _ => unimplemented }
flush(current_t, bin, sub_dest_bin, grouped) ==
    CASE current_t = 1 ->
           [fault |-> "none", grouped |-> Append(grouped, EditEquality(join(bin)))]
      [] current_t = 2 ->
           [fault |-> "none", grouped |-> Append(grouped, EditDeletion(join(bin)))]
      [] current_t = 3 ->
           [fault |-> "none", grouped |-> Append(grouped, EditInsertion(join(bin)))]
      [] current_t = 4 ->
           [fault |-> "none",
            grouped |-> Append(grouped, EditSubstitution(join(bin), join(sub_dest_bin)))]
      [] OTHER ->
           [fault |-> "unimplemented_grouping", grouped |-> grouped]

\* while i < raw.len() { inner loop; flush; next current_t; clear bins }
RECURSIVE outer_loop(_, _, _, _, _, _)
outer_loop(raw, i, current_t, bin, sub_dest_bin, grouped) ==
    IF i < Len(raw)
    THEN LET r == inner_loop(raw, i, current_t, bin, sub_dest_bin)
             f == flush(current_t, r.bin, r.sub_dest_bin, grouped)
             next_t == IF r.i < Len(raw) THEN t(raw[r.i + 1]) ELSE 0
         IN  IF r.fault # "none" THEN [fault |-> r.fault, grouped |-> <<>>]
             ELSE IF f.fault # "none" THEN [fault |-> f.fault, grouped |-> <<>>]
             ELSE outer_loop(raw, r.i, next_t, <<>>, <<>>, f.grouped)
    ELSE [fault |-> "none", grouped |-> grouped]

\* The body of grouped_edits after raw_edits() returned raw.  raw[0] is
\* read unconditionally: on an empty Vec the index panics.
group(raw) ==
    IF Len(raw) = 0
    THEN [fault |-> "index_out_of_bounds", grouped |-> <<>>]
    ELSE LET p == push_bins(raw[1], <<>>, <<>>)
         IN  IF p.fault # "none" THEN [fault |-> p.fault, grouped |-> <<>>]
             ELSE outer_loop(raw, 1, t(raw[1]), p.bin, p.sub_dest_bin, <<>>)

----------------------------------------------------------------------------
(* encoded_edits, with the encoder of the documentation and the tests *)

encoder(e) ==
    CASE e.kind = "Equality" -> e.args[1]
      [] e.kind = "Deletion" -> "[-" \o e.args[1] \o "-]"
      [] e.kind = "Insertion" -> "{+" \o e.args[1] \o "+}"
      [] e.kind = "Substitution" ->
           "[-" \o e.args[1] \o "-]" \o "{+" \o e.args[2] \o "+}"

encode(grouped) == join([k \in 1..Len(grouped) |-> encoder(grouped[k])])

----------------------------------------------------------------------------
(* The instance and its queries *)

NoResult == [op |-> "none", val |-> <<>>]

Init ==
    /\ origin \in TokenSeqs
    /\ dest \in TokenSeqs
    /\ matrix = new_matrix(origin, dest)
    /\ result = NoResult
    /\ fault = "none"
    /\ queries = 0
    /\ writes = {}
    /\ cursor_trace = <<>>

CanQuery == fault = "none" /\ queries < MaxQueries

\* What raw_edits() does to the instance and what it returns.
raw_edits_of(m0, o, d) ==
    LET m  == build(m0, o, d)
        tb == traceback(m, Len(o), Len(d), <<>>, <<>>)
    IN  [matrix |-> m, fault |-> tb.fault, val |-> tb.transformations,
         trace |-> tb.trace]

\* What grouped_edits() does to the instance and what it returns.
grouped_edits_of(m0, o, d) ==
    LET r == raw_edits_of(m0, o, d)
        g == IF r.fault = "none" THEN group(r.val)
             ELSE [fault |-> r.fault, grouped |-> <<>>]
    IN  [matrix |-> r.matrix, fault |-> g.fault, val |-> g.grouped,
         trace |-> r.trace]

Distance ==
    /\ CanQuery
    /\ LET m == build(matrix, origin, dest)
       IN  /\ matrix' = m
           /\ result' = [op |-> "distance",
                         val |-> cost(value_at(m, Len(origin), Len(dest)))]
    /\ writes' = build_writes(origin, dest)
    /\ queries' = queries + 1
    /\ UNCHANGED <<origin, dest, fault, cursor_trace>>

RawEdits ==
    /\ CanQuery
    /\ LET r == raw_edits_of(matrix, origin, dest)
       IN  /\ matrix' = r.matrix
           /\ fault' = r.fault
           /\ cursor_trace' = r.trace
           /\ result' = IF r.fault = "none"
                        THEN [op |-> "raw_edits", val |-> r.val]
                        ELSE NoResult
    /\ writes' = build_writes(origin, dest)
    /\ queries' = queries + 1
    /\ UNCHANGED <<origin, dest>>

GroupedEdits ==
    /\ CanQuery
    /\ LET g == grouped_edits_of(matrix, origin, dest)
       IN  /\ matrix' = g.matrix
           /\ fault' = g.fault
           /\ cursor_trace' = g.trace
           /\ result' = IF g.fault = "none"
                        THEN [op |-> "grouped_edits", val |-> g.val]
                        ELSE NoResult
    /\ writes' = build_writes(origin, dest)
    /\ queries' = queries + 1
    /\ UNCHANGED <<origin, dest>>

EncodedEdits ==
    /\ CanQuery
    /\ LET g == grouped_edits_of(matrix, origin, dest)
       IN  /\ matrix' = g.matrix
           /\ fault' = g.fault
           /\ cursor_trace' = g.trace
           /\ result' = IF g.fault = "none"
                        THEN [op |-> "encoded_edits", val |-> encode(g.val)]
                        ELSE NoResult
    /\ writes' = build_writes(origin, dest)
    /\ queries' = queries + 1
    /\ UNCHANGED <<origin, dest>>

Next == Distance \/ RawEdits \/ GroupedEdits \/ EncodedEdits

Spec == Init /\ [][Next]_vars

----------------------------------------------------------------------------
(* The reference: the least number of single-token edits.  A cheapest      *)
(* script can delete first, substitute next and insert last, using tokens  *)
(* of the target only, so no intermediate sequence needs to be longer than *)
(* the longer of the two ends.                                             *)

prefix(s, k) == SubSeq(s, 1, k)

without(s, i) == SubSeq(s, 1, i - 1) \o SubSeq(s, i + 1, Len(s))

with(s, i, tok) == SubSeq(s, 1, i) \o <<tok>> \o SubSeq(s, i + 1, Len(s))

one_edit(s) ==
    {without(s, i) : i \in 1..Len(s)}
        \cup {[s EXCEPT ![i] = tok] : i \in 1..Len(s), tok \in Tokens}
        \cup (IF Len(s) < MaxLen
              THEN {with(s, i, tok) : i \in 0..Len(s), tok \in Tokens}
              ELSE {})

\* The least k such that b is among the sequences reached by at most k
\* edits, given the set reached by at most k edits so far.
RECURSIVE edits_until(_, _, _)
edits_until(reached, b, k) ==
    IF b \in reached THEN k
    ELSE edits_until(reached \cup UNION {one_edit(s) : s \in reached}, b, k + 1)

edit_distance(a, b) == edits_until({a}, b, 0)

reference == [a \in TokenSeqs |-> [b \in TokenSeqs |-> edit_distance(a, b)]]

\* C1: once a query has run, every cell's cost is the least number of
\* single-token insertions, deletions and substitutions that turn
\* origin[0..x) into dest[0..y), and distance() returns the cost of cell
\* (n, m), the Levenshtein distance of origin and dest.
C1_MatrixIsEditDistance ==
    queries > 0 =>
        /\ \A x \in 0..Len(origin) : \A y \in 0..Len(dest) :
               cost(matrix[x][y]) = reference[prefix(origin, x)][prefix(dest, y)]
        /\ result.op = "distance" =>
               /\ result.val = cost(matrix[Len(origin)][Len(dest)])
               /\ result.val = reference[origin][dest]

C1_Witness ==
    /\ result.op = "distance"
    /\ Len(origin) = MaxLen
    /\ Len(dest) = MaxLen
    /\ result.val = 2

----------------------------------------------------------------------------
Interior == (1..Len(origin)) \X (1..Len(dest))

\* The candidate costs of an interior cell of the finished matrix.
insertion_cost(x, y) == cost(matrix[x][y - 1]) + 1
deletion_cost(x, y)  == cost(matrix[x - 1][y]) + 1
sub_or_eq(x, y)      == sub_or_eq_at(matrix, origin, dest, x, y)

InsDelTie(x, y) ==
    /\ insertion_cost(x, y) = deletion_cost(x, y)
    /\ deletion_cost(x, y) < cost(sub_or_eq(x, y))

\* C2: in the built matrix, an interior cell whose insertion and deletion
\* candidates cost the same, both strictly less than the substitution or
\* equality candidate, holds Deletion(cost, origin[x - 1]).
C2_TieResolvesToDeletion ==
    queries > 0 =>
        \A c \in Interior :
            InsDelTie(c[1], c[2]) =>
                matrix[c[1]][c[2]] = TDeletion(deletion_cost(c[1], c[2]), origin[c[1]])

----------------------------------------------------------------------------
(* The texts and tokens an edit list carries *)

RECURSIVE select(_, _)
select(s, keep) ==
    IF s = <<>> THEN <<>>
    ELSE IF Head(s).kind \in keep THEN <<Head(s)>> \o select(Tail(s), keep)
    ELSE select(Tail(s), keep)

first_args(s) == [k \in 1..Len(s) |-> s[k].args[1]]
last_args(s)  == [k \in 1..Len(s) |-> s[k].args[Len(s[k].args)]]

\* Origin side: Equality, Deletion, and the first field of Substitution.
origin_side(s) == first_args(select(s, {"Equality", "Deletion", "Substitution"}))

\* Dest side: Equality, Insertion, and the second field of Substitution.
dest_side(s) == last_args(select(s, {"Equality", "Insertion", "Substitution"}))

\* C3: the texts of the Equality, Deletion and Substitution (origin side)
\* edits returned by grouped_edits() concatenate to the origin text, and
\* those of the Equality, Insertion and Substitution (dest side) edits to
\* the dest text.
C3_Reconstruction ==
    result.op = "grouped_edits" =>
        /\ join(origin_side(result.val)) = join(origin)
        /\ join(dest_side(result.val)) = join(dest)

\* C4: every query completes and returns a value: no query ends in a
\* panic, also when origin and dest are both empty.
C4_Total == fault = "none"

\* C5: raw_edits() returns a minimal edit script in origin-to-dest order:
\* its origin-side tokens are origin, its dest-side tokens are dest, it has
\* as many non-Equality entries as the distance, and the cost field of its
\* last entry is the distance.
C5_RawEditsMinimalScript ==
    result.op = "raw_edits" =>
        LET raw == result.val
            distance == cost(matrix[Len(origin)][Len(dest)])
        IN  /\ origin_side(raw) = origin
            /\ dest_side(raw) = dest
            /\ distance = reference[origin][dest]
            /\ Len(select(raw, {"Deletion", "Insertion", "Substitution"})) = distance
            /\ Len(raw) > 0 => cost(raw[Len(raw)]) = distance

C5_Witness ==
    /\ result.op = "raw_edits"
    /\ {"Equality", "Insertion", "Substitution"}
           \subseteq {result.val[k].kind : k \in 1..Len(result.val)}
    /\ origin[1] # origin[Len(origin)]

\* C6: no two adjacent edits returned by grouped_edits() have the same kind.
C6_NoAdjacentSameKind ==
    result.op = "grouped_edits" =>
        \A k \in 1..(Len(result.val) - 1) :
            result.val[k].kind # result.val[k + 1].kind

C6_Witness ==
    /\ result.op = "grouped_edits"
    /\ Len(result.val) = 2
    /\ Len(origin) = MaxLen

AllCells == (0..Len(origin)) \X (0..Len(dest))

\* C7 as claimed: once a first query has completed, a later query writes
\* no matrix cell.
C7_NoLaterWrites == queries >= 2 => writes = {}

\* C7 as amended: every query rebuilds the matrix; once a first query has
\* completed, a later query writes every cell again, each with the value
\* the cell already holds, so the contents of the matrix no longer change.
C7_RebuildKeepsContents ==
    [][queries >= 1 => (matrix' = matrix /\ writes' = AllCells)]_vars

C7_Witness ==
    /\ queries = 2
    /\ writes = AllCells
    /\ Len(origin) = MaxLen
    /\ Len(dest) = MaxLen
    /\ fault = "none"

min_3(a, b, c) == CHOOSE v \in {a, b, c} : v <= a /\ v <= b /\ v <= c

\* C8: every interior cell costs the least of its three candidates, and
\* whenever the substitution-or-equality candidate costs that least the
\* cell holds that candidate, whatever insertion and deletion cost.
C8_MinimumAndSubOrEqFirst ==
    queries > 0 =>
        \A c \in Interior :
            LET least == min_3(deletion_cost(c[1], c[2]),
                               insertion_cost(c[1], c[2]),
                               cost(sub_or_eq(c[1], c[2])))
            IN  /\ cost(matrix[c[1]][c[2]]) = least
                /\ cost(sub_or_eq(c[1], c[2])) = least
                       => matrix[c[1]][c[2]] = sub_or_eq(c[1], c[2])

C8_Witness ==
    /\ queries > 0
    /\ \E c \in Interior :
           /\ cost(sub_or_eq(c[1], c[2])) = insertion_cost(c[1], c[2])
           /\ cost(sub_or_eq(c[1], c[2])) = deletion_cost(c[1], c[2])
           /\ matrix[c[1]][c[2]].kind = "Substitution"

\* The maximal runs of same-kind raw edits, one Edit per run.
run_length(raw) ==
    CHOOSE k \in 1..Len(raw) :
        /\ \A j \in 1..k : raw[j].kind = raw[1].kind
        /\ k = Len(raw) \/ raw[k + 1].kind # raw[1].kind

edit_of(run) ==
    IF run[1].kind = "Substitution"
    THEN [kind |-> "Substitution",
          args |-> <<join(first_args(run)), join(last_args(run))>>]
    ELSE [kind |-> run[1].kind, args |-> <<join(first_args(run))>>]

RECURSIVE runs(_)
runs(raw) ==
    IF raw = <<>> THEN <<>>
    ELSE LET k == run_length(raw)
         IN  <<edit_of(SubSeq(raw, 1, k))>> \o runs(SubSeq(raw, k + 1, Len(raw)))

\* The raw edits of the instance, as the grouping receives them.
raw_of_instance == raw_edits_of(matrix, origin, dest).val

\* C9: for a raw edit sequence of any length >= 1, grouped_edits() returns
\* one Edit per maximal run of same-kind raw edits, in order, the last run
\* included, each carrying the concatenated tokens of its run.
C9_OneEditPerRun ==
    (result.op = "grouped_edits" /\ Len(raw_of_instance) >= 1) =>
        result.val = runs(raw_of_instance)

\* C10: the traceback starts at (n, m), never reads an Init cell while
\* x > 0 or y > 0, steps y on Insertion, x on Deletion and both on
\* Equality and Substitution without taking either below 0, and never
\* reaches the unimplemented branch.
C10_TracebackNeverReadsInit ==
    /\ fault \notin {"unimplemented_traceback", "underflow"}
    /\ \A k \in 1..Len(cursor_trace) :
           LET x == cursor_trace[k][1]
               y == cursor_trace[k][2]
               next == matrix[x][y]
               after == IF k < Len(cursor_trace) THEN cursor_trace[k + 1]
                        ELSE <<0, 0>>
           IN  /\ k = 1 => (x = Len(origin) /\ y = Len(dest))
               /\ x > 0 \/ y > 0
               /\ next.kind # "Init"
               /\ next.kind = "Insertion" => (y > 0 /\ after = <<x, y - 1>>)
               /\ next.kind = "Deletion" => (x > 0 /\ after = <<x - 1, y>>)
               /\ next.kind \in {"Equality", "Substitution"}
                      => (x > 0 /\ y > 0 /\ after = <<x - 1, y - 1>>)

C10_Witness ==
    /\ result.op = "raw_edits"
    /\ Len(cursor_trace) >= 2
    /\ cursor_trace[1] = <<Len(origin), Len(dest)>>
    /\ Len(origin) > 0
    /\ \E k \in 1..Len(cursor_trace) : cursor_trace[k][1] = 0

----------------------------------------------------------------------------
(* What a fresh instance of the same token sequences returns on its first  *)
(* call: the matrix is the one the constructor leaves, all Init(0).        *)

fresh_matrix   == build(new_matrix(origin, dest), origin, dest)
fresh_distance == cost(value_at(fresh_matrix, Len(origin), Len(dest)))
fresh_raw      == raw_edits_of(new_matrix(origin, dest), origin, dest)
fresh_grouped  == grouped_edits_of(new_matrix(origin, dest), origin, dest)

\* C11: whatever calls were made before on the instance, a completed
\* distance(), raw_edits() or grouped_edits() call returns what the first
\* call on a fresh instance of the same token sequences returns, and the
\* matrix after every completed query is the one a fresh instance builds.
C11_HistoryIndependent ==
    (queries >= 1 /\ fault = "none") =>
        /\ matrix = fresh_matrix
        /\ result.op = "distance" => result.val = fresh_distance
        /\ result.op = "raw_edits" =>
               (fresh_raw.fault = "none" /\ result.val = fresh_raw.val)
        /\ result.op = "grouped_edits" =>
               (fresh_grouped.fault = "none" /\ result.val = fresh_grouped.val)

C11_Witness ==
    /\ queries = MaxQueries
    /\ fault = "none"
    /\ result.op = "grouped_edits"
    /\ Len(result.val) >= 2
    /\ Len(origin) = MaxLen
    /\ Len(dest) = MaxLen
    /\ \E c \in Interior : matrix[c[1]][c[2]].kind = "Deletion"

====
